---- MODULE Spec2Model ----
(***************************************************************************)
(* Model of ros/src/waypoint_updater/waypoint_updater.py: the              *)
(* WaypointUpdater node.  The node's fields are the state; the subscriber  *)
(* callbacks run on their own threads and interleave with the 50 Hz loop   *)
(* of loop(), so both waypoints_cb and one pass of the loop are split at   *)
(* the points where they read or write a field of self.                    *)
(*                                                                         *)
(* Numbers.  Positions are whole metres.  Speeds are held in 1/Unit m/s    *)
(* and distances in 1/Unit m; math.sqrt is the integer square root of the  *)
(* scaled argument, so that vel < 1. and min(vel, v) compare as the        *)
(* floating-point code does whenever the summed distance is a whole number *)
(* of metres (all lanes below have segments of whole length).              *)
(*                                                                         *)
(* Python values.  None is the record NoneVal; a Lane message is the       *)
(* record [waypoints |-> <<...>>]; a Python list kept in a field is the    *)
(* record [list |-> <<...>>]; list indices are 0-based as in the source.   *)
(***************************************************************************)
EXTENDS Integers, Sequences, FiniteSets, TLC

Unit == 10 * 10

\* LOOKAHEAD_WPS is 200 in the source; the model runs the same code with a
\* short look-ahead so that both truncated and full windows occur.
LOOKAHEAD_WPS == 5

\* MAX_DECEL = .5 m/s2, in 1/Unit m/s2.
MAX_DECEL == Unit \div 2

\* The literal 2 of line 115 (waypoints back from the stop line).
STOP_BUFFER == 2

\* Largest stop-line index a /traffic_waypoint message carries in the model.
MaxStop == 7

NoneVal == [none |-> TRUE]

IsNone(v) == v = NoneVal

Min(a, b) == IF a <= b THEN a ELSE b

Max(a, b) == IF a >= b THEN a ELSE b

----------------------------------------------------------------------------
(* Messages the environment can deliver.                                   *)

Waypoint(px, py, speed) == [x |-> px, y |-> py, z |-> 0, v |-> speed * Unit]

LaneMsg(wps) == [waypoints |-> wps]

LaneEmpty == LaneMsg(<< >>)

LaneOne == LaneMsg(<< Waypoint(0, 0, 10) >>)

\* Straight, spacing 2, unequal target speeds.
LaneShort == LaneMsg(<< Waypoint(0, 0, 1), Waypoint(2, 0, 3), Waypoint(4, 0, 2) >>)

\* Five collinear points at x = 0..4, nominal speed 10.
LaneFive == LaneMsg(<< Waypoint(0, 0, 10), Waypoint(1, 0, 10), Waypoint(2, 0, 10),
                       Waypoint(3, 0, 10), Waypoint(4, 0, 10) >>)

\* Straight, spacing 3, unequal target speeds.
LaneLong == LaneMsg(<< Waypoint(0, 0, 1), Waypoint(3, 0, 10), Waypoint(6, 0, 2),
                       Waypoint(9, 0, 10), Waypoint(12, 0, 10), Waypoint(15, 0, 1) >>)

\* Straight, spacing 2, the last point delivered twice.
LaneDup == LaneMsg(<< Waypoint(0, 0, 5), Waypoint(2, 0, 5), Waypoint(4, 0, 5),
                      Waypoint(4, 0, 5) >>)

Lanes == {LaneEmpty, LaneOne, LaneShort, LaneFive}

PoseMsg(px, py) == [x |-> px, y |-> py]

Poses == {PoseMsg(0, 0), PoseMsg(1, 1), PoseMsg(3, 0), PoseMsg(4, 1)}

StopLines == -2 .. MaxStop

\* Paths and poses for a call of generate_lane on a node that is ready.
LaneInputs == {LaneOne, LaneShort, LaneFive, LaneLong, LaneDup}

MaxPoseX == 15

\* Longest window handed to decelerate_waypoints when it is called by itself.
MaxWindow == 3

LanePoses == {PoseMsg(px, py) : px \in 0 .. MaxPoseX, py \in 0 .. 1}

----------------------------------------------------------------------------
(* Python list semantics.                                                  *)

\* seq[i] for a 0-based index that Python accepts (negative counts from the end).
PyIndex(seq, i) == IF i < 0 THEN seq[Len(seq) + i + 1] ELSE seq[i + 1]

\* seq[start:stop] for 0 <= start.
PySlice(seq, start, stop) ==
    LET hi == Min(stop, Len(seq))
    IN  IF start >= hi THEN << >>
        ELSE [k \in 1 .. (hi - start) |-> seq[start + k]]

\* bool(x) of a field holding None or a list.
ListTruthy(v) == ~IsNone(v) /\ Len(v.list) > 0

----------------------------------------------------------------------------
VARIABLES
    pose,             \* self.pose: NoneVal or a PoseMsg
    base_waypoints,   \* self.base_waypoints: NoneVal or a LaneMsg
    waypoints_2d,     \* self.waypoints_2d: NoneVal or [list |-> <<[x, y]>>]
    waypoint_tree,    \* self.waypoint_tree: NoneVal or [data |-> <<[x, y]>>]
    stopline_wp_idx,  \* self.stopline_wp_idx
    cb_pc,            \* position of the /base_waypoints callback thread
    cb_msg,           \* the message waypoints_cb is working on
    loop_pc,          \* position of the main thread inside loop()
    x, y,             \* locals of get_closest_waypoint_idx
    closest_idx,      \* its result, the argument of publish_waypoints
    ready,            \* outcome of the test of line 56 in this pass
    final_waypoints,  \* the Lane messages this pass published on final_waypoints
    gl_pc,            \* position inside a call of generate_lane
    roi_waypoints,    \* its local roi_waypoints
    temp,             \* the list decelerate_waypoints is filling
    stop_reads,       \* the values the call has read from self.stopline_wp_idx
    lane              \* the Lane it returns: NoneVal until it has returned

vars == << pose, base_waypoints, waypoints_2d, waypoint_tree, stopline_wp_idx,
           cb_pc, cb_msg, loop_pc, x, y, closest_idx, ready, final_waypoints,
           gl_pc, roi_waypoints, temp, stop_reads, lane >>

fields == << pose, base_waypoints, waypoints_2d, waypoint_tree, stopline_wp_idx >>

cbvars == << cb_pc, cb_msg >>

loopvars == << loop_pc, x, y, closest_idx, ready, final_waypoints >>

glvars == << gl_pc, roi_waypoints, temp, stop_reads, lane >>

----------------------------------------------------------------------------
(* Arithmetic.                                                             *)

RECURSIVE ISqrtIn(_, _, _)
\* Largest r in lo..hi with r * r <= n, by bisection.
ISqrtIn(n, lo, hi) ==
    IF lo >= hi THEN lo
    ELSE LET mid == (lo + hi + 1) \div 2
         IN  IF mid * mid <= n THEN ISqrtIn(n, mid, hi) ELSE ISqrtIn(n, lo, mid - 1)

\* math.sqrt on scaled values: floor of the square root.
ISqrt(n) == ISqrtIn(n, 0, Min(n, 46340))

Sq(a) == a * a

----------------------------------------------------------------------------
(* waypoints_cb: the 2D list and the KD tree.                              *)

\* Line 143: [[x, y] for waypoint in waypoints.waypoints].
Coords2d(msg) ==
    [list |-> [k \in 1 .. Len(msg.waypoints) |->
                  [x |-> msg.waypoints[k].x, y |-> msg.waypoints[k].y]]]

\* KDTree(data) raises ValueError on an empty list: no (n, m) shape.
KDTreeRaises(data) == Len(data) = 0

KDTree(data) == [data |-> data]

\* Squared planar distance from (px, py) to the point of index i.
Dist2(data, i, px, py) == Sq(data[i + 1].x - px) + Sq(data[i + 1].y - py)

\* waypoint_tree.query([x, y], 1)[1]: the index of a nearest point.  Among
\* equidistant points the library's choice is not specified: any of them.
TreeQuery(tree, px, py) ==
    {i \in 0 .. (Len(tree.data) - 1) :
        \A j \in 0 .. (Len(tree.data) - 1) :
            Dist2(tree.data, i, px, py) <= Dist2(tree.data, j, px, py)}

----------------------------------------------------------------------------
(* get_closest_waypoint_idx, lines 72-85, from the nearest index on.       *)

\* A correction that steps to the point before the nearest one.
AheadCorrection_step_back(list, px, py, nearest) ==
    LET closest_coord == PyIndex(list, nearest)
        prev_coord    == PyIndex(list, nearest - 1)
        val == (closest_coord.x - prev_coord.x) * (px - closest_coord.x)
             + (closest_coord.y - prev_coord.y) * (py - closest_coord.y)
    IN  IF val > 0 THEN (nearest - 1) % Len(list) ELSE nearest

AheadCorrection(list, px, py, nearest) ==
    LET closest_coord == PyIndex(list, nearest)
        prev_coord    == PyIndex(list, nearest - 1)
        val == (closest_coord.x - prev_coord.x) * (px - closest_coord.x)
             + (closest_coord.y - prev_coord.y) * (py - closest_coord.y)
    IN  IF val > 0 THEN (nearest + 1) % Len(list) ELSE nearest

----------------------------------------------------------------------------
(* publish_waypoints, lines 94-95: the slice that is published.            *)

\* A window that wraps to the start of the path instead of stopping at its end.
publish_waypoints_wrap(waypoints, idx) ==
    [k \in 1 .. Min(LOOKAHEAD_WPS, Len(waypoints)) |->
        waypoints[((idx + k - 1) % Len(waypoints)) + 1]]

publish_waypoints(waypoints, idx) ==
    LET farthest_idx == idx + LOOKAHEAD_WPS
    IN  PySlice(waypoints, idx, farthest_idx)

----------------------------------------------------------------------------
(* distance, lines 160-166.                                                *)

\* The lambda dl of line 162, in 1/Unit m.
dl(a, b) == ISqrt(Unit * Unit * (Sq(a.x - b.x) + Sq(a.y - b.y) + Sq(a.z - b.z)))

RECURSIVE distance_from(_, _, _, _)
\* The for loop of lines 163-165 from index i on; wp1 is the previous index.
distance_from(waypoints, wp1, i, wp2) ==
    IF i > wp2 THEN 0
    ELSE dl(PyIndex(waypoints, wp1), PyIndex(waypoints, i))
         + distance_from(waypoints, i, i + 1, wp2)

\* An arc length that is also summed when wp1 lies past wp2.
distance_symmetric(waypoints, wp1, wp2) ==
    IF wp1 <= wp2 THEN distance_from(waypoints, wp1, wp1, wp2)
    ELSE distance_from(waypoints, wp2, wp2, wp1)

distance(waypoints, wp1, wp2) == distance_from(waypoints, wp1, wp1, wp2)

\* The indices line 164 reads, for 0 <= wp1: wp1 .. wp2.
distance_reads(wp1, wp2) == wp1 .. wp2

\* waypoints[i] raises IndexError for an index past the end.
distance_raises(waypoints, wp1, wp2) ==
    \E i \in distance_reads(wp1, wp2) : i >= Len(waypoints)

----------------------------------------------------------------------------
(* decelerate_waypoints, lines 110-123.                                    *)

\* A stop offset that is not made relative to the start of the window.
stop_idx_of_path_index(stopline, idx) == Max(stopline - STOP_BUFFER, 0)

\* Line 115.
stop_idx_of(stopline, idx) == Max(stopline - idx - STOP_BUFFER, 0)

\* A snap that also takes a braking speed of exactly 1 m/s to zero.
braking_vel_snap_at_one(dist) ==
    LET vel == ISqrt(2 * MAX_DECEL * dist)
    IN  IF vel <= Unit THEN 0 ELSE vel

\* Lines 117-119.
braking_vel(dist) ==
    LET vel == ISqrt(2 * MAX_DECEL * dist)
    IN  IF vel < Unit THEN 0 ELSE vel

\* The braking speed taken over the distance from the start of the window
\* instead of the distance left to the stop index.
decelerate_point_from_start(waypoints, i, idx, stopline) ==
    LET wp   == PyIndex(waypoints, i)
        dist == distance(waypoints, 0, i)
    IN  [wp EXCEPT !.v = Min(braking_vel(dist), wp.v)]

\* The braking speed without the cap of line 120.
decelerate_point_uncapped(waypoints, i, idx, stopline) ==
    LET wp   == PyIndex(waypoints, i)
        dist == distance(waypoints, i, stop_idx_of(stopline, idx))
    IN  [wp EXCEPT !.v = braking_vel(dist)]

\* Lines 113-120: the waypoint appended for position i of the window.
decelerate_point(waypoints, i, idx, stopline) ==
    LET wp   == PyIndex(waypoints, i)
        dist == distance(waypoints, i, stop_idx_of(stopline, idx))
    IN  [wp EXCEPT !.v = Min(braking_vel(dist), wp.v)]

\* Whether iteration i raises (the IndexError of distance).
decelerate_raises(waypoints, i, idx, stopline) ==
    distance_raises(waypoints, i, stop_idx_of(stopline, idx))

\* The whole function for one value of self.stopline_wp_idx.
decelerate_waypoints(waypoints, idx, stopline) ==
    IF \E i \in 0 .. (Len(waypoints) - 1) : decelerate_raises(waypoints, i, idx, stopline)
    THEN [raised |-> TRUE, waypoints |-> << >>]
    ELSE [raised |-> FALSE,
          waypoints |-> [k \in 1 .. Len(waypoints) |->
                            decelerate_point(waypoints, k - 1, idx, stopline)]]

----------------------------------------------------------------------------
(* generate_lane, lines 98-108.  As written the function cannot run: its   *)
(* parameter is spelled sef, line 99 reads lane - Lane() and line 101      *)
(* LOOKAHEADWPS.  The model reads the three as self, lane = Lane() and     *)
(* LOOKAHEAD_WPS; nothing in the source calls the function.                *)

\* Line 104, left operand of or.
stopline_none(stopline) == stopline = -1

\* A comparison that lets a stop line at farthest_idx itself into the braking branch.
stopline_beyond_strict(stopline, farthest_idx) == stopline > farthest_idx

\* Line 104, right operand of or.
stopline_beyond(stopline, farthest_idx) == stopline >= farthest_idx

\* Line 104.
passes_through(stopline, farthest_idx) ==
    stopline_none(stopline) \/ stopline_beyond(stopline, farthest_idx)

generate_lane(waypoints, idx, stopline) ==
    LET farthest_idx == idx + LOOKAHEAD_WPS
        roi == PySlice(waypoints, idx, farthest_idx)
    IN  IF passes_through(stopline, farthest_idx)
        THEN [raised |-> FALSE, waypoints |-> roi]
        ELSE decelerate_waypoints(roi, idx, stopline)

----------------------------------------------------------------------------
(* The callbacks.  The process is gone once the loop has raised.           *)

Alive == loop_pc # "raised"

\* Lines 126-131.
pose_cb(msg) ==
    /\ Alive
    /\ pose' = msg
    /\ UNCHANGED << base_waypoints, waypoints_2d, waypoint_tree, stopline_wp_idx >>
    /\ UNCHANGED cbvars
    /\ UNCHANGED loopvars
    /\ UNCHANGED glvars

\* Lines 146-148.  The subscription of line 35 is commented out; the handler
\* is the only writer of stopline_wp_idx and is modelled as it is written.
traffic_cb(data) ==
    /\ Alive
    /\ stopline_wp_idx' = data
    /\ UNCHANGED << pose, base_waypoints, waypoints_2d, waypoint_tree >>
    /\ UNCHANGED cbvars
    /\ UNCHANGED loopvars
    /\ UNCHANGED glvars

\* Line 141.
waypoints_cb_141(msg) ==
    /\ Alive
    /\ cb_pc = "idle"
    /\ base_waypoints' = msg
    /\ cb_msg' = msg
    /\ cb_pc' = "l142"
    /\ UNCHANGED << pose, waypoints_2d, waypoint_tree, stopline_wp_idx >>
    /\ UNCHANGED loopvars
    /\ UNCHANGED glvars

\* Lines 142-143.
waypoints_cb_142 ==
    /\ Alive
    /\ cb_pc = "l142"
    /\ IF ~ListTruthy(waypoints_2d)
       THEN /\ waypoints_2d' = Coords2d(cb_msg)
            /\ cb_pc' = "l144"
            /\ cb_msg' = cb_msg
       ELSE /\ waypoints_2d' = waypoints_2d
            /\ cb_pc' = "idle"
            /\ cb_msg' = NoneVal
    /\ UNCHANGED << pose, base_waypoints, waypoint_tree, stopline_wp_idx >>
    /\ UNCHANGED loopvars
    /\ UNCHANGED glvars

\* Line 144.  When KDTree raises, the callback ends with the field unset.
waypoints_cb_144 ==
    /\ Alive
    /\ cb_pc = "l144"
    /\ waypoint_tree' = IF KDTreeRaises(waypoints_2d.list) THEN waypoint_tree
                        ELSE KDTree(waypoints_2d.list)
    /\ cb_pc' = "idle"
    /\ cb_msg' = NoneVal
    /\ UNCHANGED << pose, base_waypoints, waypoints_2d, stopline_wp_idx >>
    /\ UNCHANGED loopvars
    /\ UNCHANGED glvars

----------------------------------------------------------------------------
(* One pass of the while loop of loop().                                   *)

\* Line 56.  A message object is truthy, whatever it holds.
loop_56 ==
    /\ loop_pc = "l56"
    /\ ready' = (~IsNone(pose) /\ ~IsNone(base_waypoints))
    /\ loop_pc' = IF ready' THEN "l68" ELSE "l61"
    /\ UNCHANGED << x, y, closest_idx, final_waypoints >>
    /\ UNCHANGED fields
    /\ UNCHANGED cbvars
    /\ UNCHANGED glvars

\* Line 68.
loop_68 ==
    /\ loop_pc = "l68"
    /\ x' = pose.x
    /\ loop_pc' = "l69"
    /\ UNCHANGED << y, closest_idx, ready, final_waypoints >>
    /\ UNCHANGED fields
    /\ UNCHANGED cbvars
    /\ UNCHANGED glvars

\* Line 69.
loop_69 ==
    /\ loop_pc = "l69"
    /\ y' = pose.y
    /\ loop_pc' = "l70"
    /\ UNCHANGED << x, closest_idx, ready, final_waypoints >>
    /\ UNCHANGED fields
    /\ UNCHANGED cbvars
    /\ UNCHANGED glvars

\* Lines 70-85.  None has no attribute query: the AttributeError leaves
\* loop() and __init__, and main catches only ROSInterruptException.
loop_70 ==
    /\ loop_pc = "l70"
    /\ IF IsNone(waypoint_tree)
       THEN /\ loop_pc' = "raised"
            /\ closest_idx' = closest_idx
       ELSE /\ \E nearest \in TreeQuery(waypoint_tree, x, y) :
                 closest_idx' = AheadCorrection(waypoints_2d.list, x, y, nearest)
            /\ loop_pc' = "l93"
    /\ UNCHANGED << x, y, ready, final_waypoints >>
    /\ UNCHANGED fields
    /\ UNCHANGED cbvars
    /\ UNCHANGED glvars

\* Lines 92-96.
loop_93 ==
    /\ loop_pc = "l93"
    /\ final_waypoints' = Append(final_waypoints,
            LaneMsg(publish_waypoints(base_waypoints.waypoints, closest_idx)))
    /\ loop_pc' = "l61"
    /\ UNCHANGED << x, y, closest_idx, ready >>
    /\ UNCHANGED fields
    /\ UNCHANGED cbvars
    /\ UNCHANGED glvars

\* Line 61, then the next pass: its locals and its output start afresh.
loop_61 ==
    /\ loop_pc = "l61"
    /\ loop_pc' = "l56"
    /\ x' = 0 /\ y' = 0 /\ closest_idx' = -1
    /\ ready' = FALSE
    /\ final_waypoints' = << >>
    /\ UNCHANGED fields
    /\ UNCHANGED cbvars
    /\ UNCHANGED glvars

----------------------------------------------------------------------------
(* A call of generate_lane, step by step: each step reads a field of self  *)
(* at most once.                                                           *)

\* Line 100: get_closest_waypoint_idx (lines 68-85).
gl_100 ==
    /\ gl_pc = "l100"
    /\ x' = pose.x
    /\ y' = pose.y
    /\ \E nearest \in TreeQuery(waypoint_tree, x', y') :
          closest_idx' = AheadCorrection(waypoints_2d.list, x', y', nearest)
    /\ gl_pc' = "l101"
    /\ UNCHANGED << loop_pc, ready, final_waypoints, roi_waypoints, temp, stop_reads, lane >>
    /\ UNCHANGED fields
    /\ UNCHANGED cbvars

\* Lines 101-102.
gl_101 ==
    /\ gl_pc = "l101"
    /\ roi_waypoints' = PySlice(base_waypoints.waypoints, closest_idx,
                                closest_idx + LOOKAHEAD_WPS)
    /\ gl_pc' = "l104"
    /\ UNCHANGED << temp, stop_reads, lane >>
    /\ UNCHANGED loopvars
    /\ UNCHANGED fields
    /\ UNCHANGED cbvars

\* Line 104, left operand of or.
gl_104 ==
    /\ gl_pc = "l104"
    /\ gl_pc' = IF stopline_none(stopline_wp_idx) THEN "l105" ELSE "l104b"
    /\ stop_reads' = Append(stop_reads, stopline_wp_idx)
    /\ UNCHANGED << roi_waypoints, temp, lane >>
    /\ UNCHANGED loopvars
    /\ UNCHANGED fields
    /\ UNCHANGED cbvars

\* Line 104, right operand of or.
gl_104b ==
    /\ gl_pc = "l104b"
    /\ gl_pc' = IF stopline_beyond(stopline_wp_idx, closest_idx + LOOKAHEAD_WPS)
                THEN "l105" ELSE "l112"
    /\ stop_reads' = Append(stop_reads, stopline_wp_idx)
    /\ UNCHANGED << roi_waypoints, temp, lane >>
    /\ UNCHANGED loopvars
    /\ UNCHANGED fields
    /\ UNCHANGED cbvars

\* Lines 105 and 108.
gl_105 ==
    /\ gl_pc = "l105"
    /\ lane' = LaneMsg(roi_waypoints)
    /\ gl_pc' = "done"
    /\ UNCHANGED << roi_waypoints, temp, stop_reads >>
    /\ UNCHANGED loopvars
    /\ UNCHANGED fields
    /\ UNCHANGED cbvars

\* Lines 112-121: one iteration of the for loop, i = len(temp).
gl_112 ==
    /\ gl_pc = "l112"
    /\ Len(temp) < Len(roi_waypoints)
    /\ IF decelerate_raises(roi_waypoints, Len(temp), closest_idx, stopline_wp_idx)
       THEN /\ gl_pc' = "raised"
            /\ temp' = temp
       ELSE /\ gl_pc' = "l112"
            /\ temp' = Append(temp, decelerate_point(roi_waypoints, Len(temp),
                                                     closest_idx, stopline_wp_idx))
    /\ stop_reads' = Append(stop_reads, stopline_wp_idx)
    /\ UNCHANGED << roi_waypoints, lane >>
    /\ UNCHANGED loopvars
    /\ UNCHANGED fields
    /\ UNCHANGED cbvars

\* Lines 123, 107 and 108.
gl_123 ==
    /\ gl_pc = "l112"
    /\ Len(temp) = Len(roi_waypoints)
    /\ lane' = LaneMsg(temp)
    /\ gl_pc' = "done"
    /\ UNCHANGED << roi_waypoints, temp, stop_reads >>
    /\ UNCHANGED loopvars
    /\ UNCHANGED fields
    /\ UNCHANGED cbvars

----------------------------------------------------------------------------
\* __init__, lines 40-46.
Init ==
    /\ stopline_wp_idx = -1
    /\ pose = NoneVal
    /\ base_waypoints = NoneVal
    /\ waypoints_2d = NoneVal
    /\ waypoint_tree = NoneVal
    /\ cb_pc = "idle"
    /\ cb_msg = NoneVal
    /\ loop_pc = "l56"
    /\ x = 0 /\ y = 0 /\ closest_idx = -1
    /\ ready = FALSE
    /\ final_waypoints = << >>
    /\ gl_pc = "off"
    /\ roi_waypoints = << >>
    /\ temp = << >>
    /\ stop_reads = << >>
    /\ lane = NoneVal

Next ==
    \/ \E msg \in Poses : pose_cb(msg)
    \/ \E data \in StopLines : traffic_cb(data)
    \/ \E msg \in Lanes : waypoints_cb_141(msg)
    \/ waypoints_cb_142
    \/ waypoints_cb_144
    \/ loop_56
    \/ loop_68
    \/ loop_69
    \/ loop_70
    \/ loop_93
    \/ loop_61

Spec == Init /\ [][Next]_vars

----------------------------------------------------------------------------
(* generate_lane called on a node that has its path and a pose: the path   *)
(* was delivered once and waypoints_cb has finished.                       *)

InitLane ==
    /\ stopline_wp_idx \in StopLines
    /\ pose \in LanePoses
    /\ base_waypoints \in LaneInputs
    /\ waypoints_2d = Coords2d(base_waypoints)
    /\ waypoint_tree = KDTree(waypoints_2d.list)
    /\ cb_pc = "idle"
    /\ cb_msg = NoneVal
    /\ loop_pc = "off"
    /\ x = 0 /\ y = 0 /\ closest_idx = -1
    /\ ready = FALSE
    /\ final_waypoints = << >>
    /\ gl_pc = "l100"
    /\ roi_waypoints = << >>
    /\ temp = << >>
    /\ stop_reads = << >>
    /\ lane = NoneVal

NextLane ==
    \/ gl_100
    \/ gl_101
    \/ gl_104
    \/ gl_104b
    \/ gl_105
    \/ gl_112
    \/ gl_123

SpecLane == InitLane /\ [][NextLane]_vars

----------------------------------------------------------------------------
(* generate_lane on the loop's thread while the subscriber thread of       *)
(* /traffic_waypoint delivers stop-line indices: traffic_cb may run        *)
(* between any two steps of generate_lane.                                 *)

RaceStops == {-1, 4}

InitLaneRace ==
    /\ stopline_wp_idx \in RaceStops
    /\ pose \in Poses
    /\ base_waypoints = LaneLong
    /\ waypoints_2d = Coords2d(base_waypoints)
    /\ waypoint_tree = KDTree(waypoints_2d.list)
    /\ cb_pc = "idle"
    /\ cb_msg = NoneVal
    /\ loop_pc = "off"
    /\ x = 0 /\ y = 0 /\ closest_idx = -1
    /\ ready = FALSE
    /\ final_waypoints = << >>
    /\ gl_pc = "l100"
    /\ roi_waypoints = << >>
    /\ temp = << >>
    /\ stop_reads = << >>
    /\ lane = NoneVal

NextLaneRace ==
    \/ NextLane
    \/ \E data \in RaceStops : traffic_cb(data)

SpecLaneRace == InitLaneRace /\ [][NextLaneRace]_vars

----------------------------------------------------------------------------
(* decelerate_waypoints(waypoints, closest_idx) called by itself on a node *)
(* that is ready, with a window of the path that starts at closest_idx.    *)

InitDecel ==
    /\ stopline_wp_idx \in StopLines
    /\ pose = NoneVal
    /\ base_waypoints \in LaneInputs
    /\ waypoints_2d = Coords2d(base_waypoints)
    /\ waypoint_tree = KDTree(waypoints_2d.list)
    /\ cb_pc = "idle"
    /\ cb_msg = NoneVal
    /\ loop_pc = "off"
    /\ x = 0 /\ y = 0
    /\ closest_idx \in 0 .. (Len(base_waypoints.waypoints) - 1)
    /\ ready = FALSE
    /\ final_waypoints = << >>
    /\ gl_pc = "l112"
    /\ \E n \in 1 .. MaxWindow :
          roi_waypoints = PySlice(base_waypoints.waypoints, closest_idx, closest_idx + n)
    /\ temp = << >>
    /\ stop_reads = << >>
    /\ lane = NoneVal

NextDecel ==
    \/ gl_112
    \/ gl_123

SpecDecel == InitDecel /\ [][NextDecel]_vars

----------------------------------------------------------------------------
(* Properties of the running node (Spec).                                  *)

Speeds(wps) == [k \in 1 .. Len(wps) |-> wps[k].v]

\* The step of line 96: this pass publishes.
Publishes == loop_pc = "l93" /\ loop_pc' = "l61"

\* The Lane that step publishes.
Published == final_waypoints'[Len(final_waypoints')].waypoints

\* C1: when a /base_waypoints delivery interleaves with the loop, a pass
\* that got through the test of line 56 never fails on the KD tree not
\* having been built yet.
C1_NoQueryBeforeIndexBuilt ==
    ~(loop_pc = "raised" /\ IsNone(waypoint_tree) /\ cb_pc \in {"l142", "l144"})

\* C2: once a path has been delivered and indexed, a later delivery changes
\* none of base_waypoints, waypoints_2d and waypoint_tree.
C2_LaterDeliveryIgnored ==
    [][(cb_pc = "idle" /\ ~IsNone(waypoint_tree))
          => /\ base_waypoints' = base_waypoints
             /\ waypoints_2d' = waypoints_2d
             /\ waypoint_tree' = waypoint_tree]_vars

\* C3: a pass that publishes while the stop-line index is set and below
\* closest_idx + LOOKAHEAD_WPS publishes the speeds decelerate_waypoints
\* gives the window, not the speeds of the path.
C3_HorizonCarriesBrakingSpeeds ==
    [][(/\ Publishes
        /\ stopline_wp_idx # -1
        /\ stopline_wp_idx < closest_idx + LOOKAHEAD_WPS)
          => LET braked == generate_lane(base_waypoints.waypoints, closest_idx,
                                         stopline_wp_idx)
             IN  /\ ~braked.raised
                 /\ Speeds(Published) = Speeds(braked.waypoints)]_vars

\* C4: a pass publishes exactly once when pose and path were both there at
\* line 56 and nothing otherwise; nothing is published before both arrived.
C4_PublishesOnceWhenReady ==
    /\ (loop_pc \in {"l61", "raised"} /\ ready) => Len(final_waypoints) = 1
    /\ (loop_pc = "l61" /\ ~ready) => Len(final_waypoints) = 0
    /\ Len(final_waypoints) > 0 => (~IsNone(pose) /\ ~IsNone(base_waypoints))

\* C5: while only empty paths have been delivered the node holds no path and
\* no index, and no pass of the loop fails.
C5_EmptyDeliveryRejected ==
    (cb_pc = "idle" /\ IsNone(waypoint_tree))
        => (IsNone(base_waypoints) /\ loop_pc # "raised")

\* C6: every published Lane holds at least one waypoint.
C6_HorizonNeverEmpty ==
    \A k \in 1 .. Len(final_waypoints) : Len(final_waypoints[k].waypoints) >= 1

\* C7: the index get_closest_waypoint_idx hands to publish_waypoints is an
\* index of the path publish_waypoints slices.
C7_LocalizedIndexValid ==
    loop_pc = "l93"
        => (0 <= closest_idx /\ closest_idx < Len(base_waypoints.waypoints))

----------------------------------------------------------------------------
(* Properties of generate_lane (SpecLane).                                 *)

\* The call has returned or raised.
LaneEnded == gl_pc \in {"done", "raised"}

\* The returned waypoints carry the speeds of the path points they copy.
LaneSpeedsOriginal ==
    /\ Len(lane.waypoints) =
          Min(LOOKAHEAD_WPS, Len(base_waypoints.waypoints) - closest_idx)
    /\ \A k \in 1 .. Len(lane.waypoints) :
          lane.waypoints[k].v = base_waypoints.waypoints[closest_idx + k].v

\* C9: with the stop-line index -1 or at least closest_idx + LOOKAHEAD_WPS,
\* generate_lane returns, at every position, the target speed of the path
\* point at that position.
C9_PassThroughKeepsSpeeds ==
    (LaneEnded /\ (stopline_wp_idx = -1
                    \/ stopline_wp_idx >= closest_idx + LOOKAHEAD_WPS))
        => (gl_pc = "done" /\ LaneSpeedsOriginal)

\* generate_lane returned a window of several points for a stop line that
\* is set and lies past the window.
C9_Witness ==
    /\ gl_pc = "done"
    /\ stopline_wp_idx # -1
    /\ stopline_wp_idx >= closest_idx + LOOKAHEAD_WPS
    /\ Len(lane.waypoints) >= 2

\* C10: a stop-line index other than -1 that is no index of the path is
\* handled as -1 is: generate_lane returns the path's speeds, and does not
\* raise.
C10_InvalidStopLineIsNone ==
    (LaneEnded /\ stopline_wp_idx \notin 0 .. (Len(base_waypoints.waypoints) - 1))
        => (gl_pc = "done" /\ LaneSpeedsOriginal)

----------------------------------------------------------------------------
(* Properties of decelerate_waypoints as generate_lane calls it (SpecLane, *)
(* where self.stopline_wp_idx keeps one value during the call).            *)

\* generate_lane took the branch of line 107 and decelerate_waypoints returned.
DecelReturned ==
    /\ gl_pc = "done"
    /\ stopline_wp_idx # -1
    /\ stopline_wp_idx < closest_idx + LOOKAHEAD_WPS

\* The window position (0-based) the speeds are brought to zero at.
StopOffset == Max(stopline_wp_idx - closest_idx - STOP_BUFFER, 0)

\* Window positions (0-based) of the returned lane.
WindowPositions == 0 .. (Len(lane.waypoints) - 1)

OutSpeed(i) == lane.waypoints[i + 1].v

OrigSpeed(i) == roi_waypoints[i + 1].v

\* The stop-line index is an index of the path.
StopLineValid ==
    stopline_wp_idx >= 0 /\ stopline_wp_idx < Len(base_waypoints.waypoints)

\* C11 as stated: in a window decelerate_waypoints was applied to (here for
\* a stop line that is an index of the path), the output speeds never
\* increase from the window start up to the stop offset, whatever the target
\* speeds of the path points are.
C11_SpeedsNonIncreasing ==
    (DecelReturned /\ StopLineValid) =>
        \A i, j \in WindowPositions :
            (i < j /\ j <= StopOffset) => OutSpeed(i) >= OutSpeed(j)

\* C11 as amended: the same, for positions whose target speeds do not
\* increase (point i's target speed is at least point j's).
C11_SpeedsNonIncreasingWhereTargetsAre ==
    DecelReturned =>
        \A i, j \in WindowPositions :
            (i < j /\ j <= StopOffset /\ OrigSpeed(i) >= OrigSpeed(j))
                => OutSpeed(i) >= OutSpeed(j)

\* A braked window whose speeds fall strictly over three positions before
\* the stop offset is reached.
C11_Witness ==
    /\ DecelReturned
    /\ StopOffset >= 2
    /\ Len(lane.waypoints) >= 3
    /\ OrigSpeed(0) >= OrigSpeed(1)
    /\ OutSpeed(0) > OutSpeed(1)
    /\ OutSpeed(1) > OutSpeed(2)

----------------------------------------------------------------------------
(* The concrete scenario (SpecDecel): five collinear points at x = 0..4,   *)
(* target speed 10, the window of three points from index 1, and the stop  *)
(* offset 2.  The buffer of line 115 is the literal 2, so the stop offset   *)
(* 2 is that of stop-line index 5, not of index 3 with a buffer of 0.      *)

C12_Scenario ==
    /\ gl_pc = "done"
    /\ base_waypoints = LaneFive
    /\ closest_idx = 1
    /\ Len(roi_waypoints) = 3
    /\ StopOffset = 2

\* The arc length from each window position to the stop offset, in 1/Unit m.
C12_Distances == [k \in 1 .. 3 |-> distance(roi_waypoints, k - 1, StopOffset)]

\* C12 as stated: the distances are [2, 1, 0] and the speeds [1.41, 0, 0]:
\* the braking speed of exactly 1.0 at distance 1 is taken to 0.
C12_ScenarioSnapsOne ==
    C12_Scenario =>
        /\ C12_Distances = << 2 * Unit, 1 * Unit, 0 >>
        /\ Speeds(lane.waypoints) = << 141, 0, 0 >>

\* C12 as amended: the distances are [2, 1, 0] and the speeds [1.41, 1.0, 0]:
\* a braking speed of exactly 1.0 is not below 1.0 and is kept.
C12_ScenarioKeepsOne ==
    C12_Scenario =>
        /\ C12_Distances = << 2 * Unit, 1 * Unit, 0 >>
        /\ Speeds(lane.waypoints) = << 141, 1 * Unit, 0 >>

\* decelerate_waypoints has returned in the scenario.
C12_Witness == C12_Scenario /\ Len(lane.waypoints) = 3

----------------------------------------------------------------------------
(* More properties of decelerate_waypoints under generate_lane (SpecLane). *)

\* The target speed of the path point that window position i copies.
PathSpeed(i) == base_waypoints.waypoints[closest_idx + i + 1].v

\* C13: every speed decelerate_waypoints returns is at most the target speed
\* of the path point at that position.
C13_NeverAboveTarget ==
    DecelReturned => \A i \in WindowPositions : OutSpeed(i) <= PathSpeed(i)

\* A braked window with one speed held at its target by the cap and another
\* brought below its target without reaching zero.
C13_Witness ==
    /\ DecelReturned
    /\ \E i \in WindowPositions : OutSpeed(i) = PathSpeed(i) /\ OutSpeed(i) > 0
    /\ \E i \in WindowPositions : OutSpeed(i) < PathSpeed(i) /\ OutSpeed(i) > 0

\* C14: in a braked window every point at or past the stop offset, and every
\* point whose distance to the stop offset is computed as 0, gets speed 0;
\* with the stop line behind closest_idx that is every point of the window.
C14_ZeroAtAndPastStop ==
    DecelReturned =>
        /\ \A i \in WindowPositions :
              (i >= StopOffset \/ distance(roi_waypoints, i, StopOffset) = 0)
                  => OutSpeed(i) = 0
        /\ stopline_wp_idx < closest_idx
              => \A i \in WindowPositions : OutSpeed(i) = 0

\* A braked window that still moves at its start, has points past the stop
\* offset, and all of them with a target speed above zero.
C14_Witness ==
    /\ DecelReturned
    /\ StopOffset >= 1
    /\ OutSpeed(0) > 0
    /\ Len(lane.waypoints) > StopOffset + 1
    /\ \A i \in WindowPositions : PathSpeed(i) > 0

----------------------------------------------------------------------------
(* generate_lane against concurrent stop-line deliveries (SpecLaneRace). *)

\* C15: all reads of stopline_wp_idx that one call of generate_lane makes
\* (line 104 and every iteration of line 115) return the same value, whatever
\* traffic_cb delivers in between.
C15_StopLineReadOnce ==
    \A i \in DOMAIN stop_reads : \A j \in DOMAIN stop_reads :
        stop_reads[i] = stop_reads[j]

----------------------------------------------------------------------------
(* get_closest_waypoint_idx on the paths of SpecLane, which all run along  *)
(* the x axis in the direction of increasing index.                        *)

\* closest_idx holds the result of get_closest_waypoint_idx for (x, y).
Located == gl_pc # "l100"

\* The indices k of consecutive points k-1, k.
Segments == 1 .. (Len(waypoints_2d.list) - 1)

\* The pose read by the call lies strictly between points k-1 and k along
\* the direction of travel.
StrictlyBetween(k) ==
    /\ waypoints_2d.list[k].x < x
    /\ x < waypoints_2d.list[k + 1].x

\* C16: for a pose strictly between points k-1 and k the index returned is
\* at least k-1, whichever point the nearest-neighbour query returned.
C16_NotMoreThanOneBehind ==
    Located => \A k \in Segments : StrictlyBetween(k) => closest_idx >= k - 1

\* The pose is past point k-1 and nearer to it than to point k, the query
\* returned k-1 and the correction stepped to k; k-1 has a predecessor.
C16_Witness ==
    /\ Located
    /\ \E k \in Segments :
          /\ k >= 2
          /\ StrictlyBetween(k)
          /\ TreeQuery(waypoint_tree, x, y) = {k - 1}
          /\ closest_idx = k

\* A straight path that is not closed: the points all differ and lie on the
\* x axis in the order of their indices.
StraightOpenPath ==
    /\ \A k \in Segments : waypoints_2d.list[k].x < waypoints_2d.list[k + 1].x
    /\ \A i \in DOMAIN waypoints_2d.list : waypoints_2d.list[i].y = 0

\* C18: on a straight, non-closed path the index returned for a pose
\* strictly between points k-1 and k is k, the point in front of the pose,
\* for k = 1 too.
C18_ReturnsPointInFront ==
    (Located /\ StraightOpenPath)
        => \A k \in Segments : StrictlyBetween(k) => closest_idx = k

\* decelerate_waypoints is running, or has raised, for a stop line that is an
\* index of the path and lies before the end of the horizon.
DecelInvokedValid ==
    /\ gl_pc \in {"l112", "raised"}
    /\ StopLineValid
    /\ stopline_wp_idx < closest_idx + LOOKAHEAD_WPS
    /\ closest_idx \in 0 .. (Len(base_waypoints.waypoints) - 1)

\* C20: for such a stop line every index that distance(waypoints, i, stop_idx)
\* reads, for every position i of the window, is an index of the window, and
\* no IndexError is raised; a window cut short by the end of the path included.
C20_DistanceReadsInsideWindow ==
    DecelInvokedValid =>
        /\ gl_pc # "raised"
        /\ \A i \in 0 .. (Len(roi_waypoints) - 1) :
              \A r \in distance_reads(i, stop_idx_of(stopline_wp_idx, closest_idx)) :
                  r \in 0 .. (Len(roi_waypoints) - 1)

\* A window cut short by the end of the path, with the stop offset past its
\* first position, after at least one iteration of the loop.
C20_Witness ==
    /\ DecelInvokedValid
    /\ Len(roi_waypoints) < LOOKAHEAD_WPS
    /\ stop_idx_of(stopline_wp_idx, closest_idx) >= 1
    /\ Len(temp) >= 1

----------------------------------------------------------------------------
(* The node's threads (Spec): frame of base_waypoints, reads of self.pose. *)

\* C17: once base_waypoints holds a delivered path, no step of the node
\* changes it.
C17_PathNeverChanges ==
    [][~IsNone(base_waypoints) => base_waypoints' = base_waypoints]_vars

\* C19: the x and y that the query and the dot product of one pass use were
\* delivered together, in one pose message.
C19_PoseSnapshot ==
    loop_pc \in {"l70", "l93"} => PoseMsg(x, y) \in Poses

====
